---------------------------- MODULE Spec2Model ----------------------------
(***************************************************************************)
(* QualiAgua (src/app.py): compliance evaluation of water-quality samples  *)
(* against the reference table of Portaria GM/MS 888/2021, the aggregators *)
(* built on it, the filtered load of the CSV data source, and the routes   *)
(* of the server with the map file they share.                             *)
(*                                                                         *)
(* Text is modelled as sequences of one-character strings so that strip,   *)
(* upper, replace and the numeric parsers are computed, not assumed.       *)
(* Numbers are exact decimals m / 10^f; binary floating-point rounding is  *)
(* not modelled.                                                           *)
(***************************************************************************)
EXTENDS Integers, Sequences, FiniteSets, TLC

VARIABLES pc, row, df, csv, filtros, ret, arquivos, reqs

vars == <<pc, row, df, csv, filtros, ret, arquivos, reqs>>

\* the inputs of a call, which no operation changes
inputs == <<row, df, csv, filtros, arquivos, reqs>>

(***************************************************************************)
(* Bounds of the model.                                                    *)
(***************************************************************************)
\* longest free-form text generated for the result field
MaxStr == 3
\* most blanks put on each side of a word of the result field
MaxPad == 1
\* most rows of a frame given to an aggregator
MaxRows == 3
\* most records of the data source
MaxLinhas == 3

(***************************************************************************)
(* Cell values of a pandas row: NaN/None, text, a float.                   *)
(***************************************************************************)
NaN == [t |-> "nan"]

Str(s) == [t |-> "str", s |-> s]

Num(m, f) == [t |-> "num", m |-> m, f |-> f]

\* a value that cannot be hashed or tested for NaN as a scalar (a list)
Lista == [t |-> "list"]

\* pd.isna / pd.notna on a scalar cell
isna(v) == v.t = "nan"

notna(v) == ~isna(v)

(***************************************************************************)
(* Python text operations.                                                 *)
(***************************************************************************)
Whitespace == {" ", "\t", "\n"}

Lower26 == <<"a","b","c","d","e","f","g","h","i","j","k","l","m","n","o","p","q","r","s","t","u","v","w","x","y","z">>

Upper26 == <<"A","B","C","D","E","F","G","H","I","J","K","L","M","N","O","P","Q","R","S","T","U","V","W","X","Y","Z">>

Digits10 == <<"0","1","2","3","4","5","6","7","8","9">>

IndexOf(c, alphabet) ==
  IF \E i \in 1..Len(alphabet) : alphabet[i] = c
  THEN CHOOSE i \in 1..Len(alphabet) : alphabet[i] = c
  ELSE 0

\* str.upper(), character by character
upper(s) ==
  [i \in 1..Len(s) |->
     LET k == IndexOf(s[i], Lower26) IN IF k > 0 THEN Upper26[k] ELSE s[i]]

\* str.lower(), character by character
lower(s) ==
  [i \in 1..Len(s) |->
     LET k == IndexOf(s[i], Upper26) IN IF k > 0 THEN Lower26[k] ELSE s[i]]

RECURSIVE lstrip(_)
lstrip(s) ==
  IF s # <<>> /\ Head(s) \in Whitespace THEN lstrip(Tail(s)) ELSE s

RECURSIVE rstrip(_)
rstrip(s) ==
  IF s # <<>> /\ s[Len(s)] \in Whitespace THEN rstrip(SubSeq(s, 1, Len(s) - 1)) ELSE s

\* str.strip()
strip(s) == rstrip(lstrip(s))

\* str.replace(old, new) with new a one-character string
replace(s, old, new) == [i \in 1..Len(s) |-> IF s[i] = old THEN new ELSE s[i]]

\* str.replace(old, '')
RECURSIVE remove(_, _)
remove(s, old) ==
  IF s = <<>> THEN <<>>
  ELSE IF Head(s) = old THEN remove(Tail(s), old)
  ELSE <<Head(s)>> \o remove(Tail(s), old)

(***************************************************************************)
(* float(text): blanks around, an optional sign, digits with at most one   *)
(* point and at least one digit.  Exponents, underscores, inf and nan are  *)
(* outside the alphabet of the model.  Fail stands for ValueError.         *)
(***************************************************************************)
Fail == [t |-> "ValueError"]

RECURSIVE Pow10(_)
Pow10(n) == IF n = 0 THEN 1 ELSE 10 * Pow10(n - 1)

RECURSIVE DigitsValue(_)
DigitsValue(s) ==
  IF s = <<>> THEN 0
  ELSE 10 * DigitsValue(SubSeq(s, 1, Len(s) - 1)) + (IndexOf(s[Len(s)], Digits10) - 1)

float_str(s) ==
  LET t      == strip(s)
      signed == t # <<>> /\ Head(t) \in {"+", "-"}
      body   == IF signed THEN Tail(t) ELSE t
      points == {i \in 1..Len(body) : body[i] = "."}
      digits == remove(body, ".")
      wellformed ==
        /\ Cardinality(points) <= 1
        /\ digits # <<>>
        /\ \A i \in 1..Len(digits) : IndexOf(digits[i], Digits10) > 0
      frac   == IF points = {} THEN 0 ELSE Len(body) - (CHOOSE i \in points : TRUE)
      mag    == DigitsValue(digits)
  IN  IF ~wellformed THEN Fail
      ELSE Num(IF signed /\ Head(t) = "-" THEN 0 - mag ELSE mag, frac)

\* float(x) of a cell that is not NaN: a float is itself, text is parsed
float(v) ==
  IF v.t = "num" THEN v
  ELSE IF v.t = "str" THEN float_str(v.s)
  ELSE Fail

\* a <= b on exact decimals
Leq(a, b) == a.m * Pow10(b.f) <= b.m * Pow10(a.f)

(***************************************************************************)
(* VALORES_REFERENCIA                                                      *)
(***************************************************************************)
EscherichiaColi == <<"E","s","c","h","e","r","i","c","h","i","a"," ","c","o","l","i">>

ColiformesTotais == <<"C","o","l","i","f","o","r","m","e","s"," ","t","o","t","a","i","s">>

Turbidez == <<"T","u","r","b","i","d","e","z"," ","(","u","T",")">>

CloroResidualLivre == <<"C","l","o","r","o"," ","r","e","s","i","d","u","a","l"," ","l","i","v","r","e"," ","(","m","g","/","L",")">>

Fluoreto == <<"F","l","u","o","r","e","t","o"," ","(","m","g","/","L",")">>

AUSENTE == <<"A","U","S","E","N","T","E">>

VALORES_REFERENCIA ==
  (EscherichiaColi :> [tipo |-> "ausencia", valor |-> AUSENTE])
  @@ (ColiformesTotais :> [tipo |-> "ausencia", valor |-> AUSENTE])
  @@ (Turbidez :> [tipo |-> "maximo", valor |-> Num(50, 1)])
  @@ (CloroResidualLivre :> [tipo |-> "intervalo", min |-> Num(2, 1), max |-> Num(50, 1)])
  @@ (Fluoreto :> [tipo |-> "maximo", valor |-> Num(15, 1)])

(***************************************************************************)
(* Rows.  A Series (or dict) maps column names to cells; None has no get.  *)
(***************************************************************************)
Series(cells) == [obj |-> "Series", cells |-> cells]

NoneRow == [obj |-> "None"]

\* row.get(col): the cell, or None when the row has no such column
get(r, col) == IF col \in DOMAIN r.cells THEN r.cells[col] ELSE NaN

(***************************************************************************)
(* verificar_conformidade                                                  *)
(***************************************************************************)
\* what line 88 returns for a null or unknown parameter
RetornoDesconhecidoConforme == TRUE

RetornoDesconhecido == FALSE

\* the 'ausencia' branch
AusenciaSemStrip(r, ref) ==
  LET resultado_str == IF notna(get(r, "resultado"))
                       THEN upper(get(r, "resultado").s) ELSE <<>>
  IN  resultado_str = ref.valor

Ausencia(r, ref) ==
  LET resultado_str == IF notna(get(r, "resultado"))
                       THEN upper(strip(get(r, "resultado").s)) ELSE <<>>
  IN  resultado_str = ref.valor

\* the fallback conversion of 'resultado' when 'resultado_numerico' is NaN
ConverterResultadoSemVirgula(r) == float(get(r, "resultado"))

ConverterResultado(r) ==
  LET v == get(r, "resultado")
  IN  IF v.t = "str" THEN float_str(replace(v.s, ",", ".")) ELSE float(v)

\* the test applied to the resolved value
DentroDoLimiteEstrito(valor, ref) ==
  IF ref.tipo = "maximo" THEN Leq(valor, ref.valor) /\ valor # ref.valor
  ELSE Leq(ref.min, valor) /\ Leq(valor, ref.max)

DentroDoLimite(valor, ref) ==
  IF ref.tipo = "maximo" THEN Leq(valor, ref.valor)
  ELSE Leq(ref.min, valor) /\ Leq(valor, ref.max)

\* the 'maximo' / 'intervalo' branch
Numerico(r, ref) ==
  LET resultado_num_val == get(r, "resultado_numerico")
      obtido == IF isna(resultado_num_val)
                THEN (IF notna(get(r, "resultado")) THEN ConverterResultado(r) ELSE Fail)
                ELSE resultado_num_val
      valor  == IF obtido = Fail THEN Fail ELSE float(obtido)
  IN  IF valor = Fail THEN FALSE ELSE DentroDoLimite(valor, ref)

Returned(v) == [kind |-> "return", val |-> v]

Raised == [kind |-> "raise"]

\* the body of the try block: what it returns, or Raised for an exception in it
TryBody(r) ==
  LET parametro == get(r, "parametro")
  IN  IF parametro.t = "list" THEN Raised
      ELSE IF isna(parametro) \/ parametro.t # "str"
              \/ parametro.s \notin DOMAIN VALORES_REFERENCIA
      THEN Returned(RetornoDesconhecido)
      ELSE LET ref == VALORES_REFERENCIA[parametro.s]
           IN  IF ref.tipo = "ausencia" THEN Returned(Ausencia(r, ref))
               ELSE IF ref.tipo \in {"maximo", "intervalo"} THEN Returned(Numerico(r, ref))
               ELSE Returned(FALSE)

\* the except clause of the try block
ExceptHandler(r) == Returned(FALSE)

\* the whole call: row.get('parametro') is evaluated before the try block
verificar_conformidade(r) ==
  IF r.obj # "Series" THEN Raised
  ELSE LET tentativa == TryBody(r)
       IN  IF tentativa = Raised THEN ExceptHandler(r) ELSE tentativa

(***************************************************************************)
(* DataFrames: the columns and the rows in order; None is not a frame.     *)
(* Percentages are exact fractions in lowest terms.                        *)
(***************************************************************************)
DataFrame(columns, rows) == [obj |-> "DataFrame", columns |-> columns, rows |-> rows]

NoneFrame == [obj |-> "None"]

\* df.empty
empty(d) == Len(d.rows) = 0 \/ d.columns = {}

RECURSIVE GCD(_, _)
GCD(a, b) == IF b = 0 THEN a ELSE GCD(b, a % b)

Rat(n, d) == LET g == GCD(n, d) IN [num |-> n \div g, den |-> d \div g]

Zero == Rat(0, 1)

Cem == Rat(100, 1)

\* 100 - x
ComplementoIgual(x) == x

Complemento(x) == Rat(100 * x.den - x.num, x.den)

\* df.apply(verificar_conformidade, axis=1): the 'conforme' column beside the cells
apply_conforme(rows) ==
  [i \in 1..Len(rows) |->
     [cells |-> rows[i], conforme |-> verificar_conformidade(Series(rows[i])).val]]

\* df['conforme'].mean() * 100 of a frame that has rows
SoAvaliaveis(rs) ==
  LET sab == SelectSeq(rs, LAMBDA r : r.cells["parametro"].t = "str"
                                      /\ r.cells["parametro"].s \in DOMAIN VALORES_REFERENCIA)
  IN  IF Len(sab) = 0 THEN Zero
      ELSE Rat(100 * Len(SelectSeq(sab, LAMBDA r : r.conforme)), Len(sab))

mean100(rs) == Rat(100 * Len(SelectSeq(rs, LAMBDA r : r.conforme)), Len(rs))

\* df[df[col] == value]: NaN equals nothing
onde(rs, col, value) ==
  SelectSeq(rs, LAMBDA r : r.cells[col] # NaN /\ r.cells[col] = value)

\* the distinct values from the last one back
RECURSIVE de_tras_para_frente(_)
de_tras_para_frente(s) ==
  IF s = <<>> THEN <<>>
  ELSE LET u == de_tras_para_frente(Tail(s))
       IN  IF \E i \in 1..Len(u) : u[i] = Head(s) THEN u ELSE Append(u, Head(s))

\* Series.unique(): the distinct values in order of first occurrence, NaN kept
RECURSIVE unique(_)
unique(s) ==
  IF s = <<>> THEN <<>>
  ELSE LET u == unique(SubSeq(s, 1, Len(s) - 1))
       IN  IF \E i \in 1..Len(u) : u[i] = s[Len(s)] THEN u ELSE Append(u, s[Len(s)])

coluna(rows, col) == [i \in 1..Len(rows) |-> rows[i][col]]

\* Series.nunique(): the distinct non-null values
nunique(s) == Cardinality({s[i] : i \in 1..Len(s)} \ {NaN})

\* param.lower().replace(' ', '_').replace('(', '').replace(')', '').replace('/', '_')
param_key_sem_parenteses(param) ==
  replace(replace(lower(param), " ", "_"), "/", "_")

param_key(param) ==
  replace(remove(remove(replace(lower(param), " ", "_"), "("), ")"), "/", "_")

\* the five parameters, in the order of the list literal
parametros_para_stats == <<EscherichiaColi, ColiformesTotais, Turbidez, CloroResidualLivre, Fluoreto>>

\* dict.get(key, default) on the entries a loop wrote, the last write of a key winning
dict_get(entradas, chave, default) ==
  LET n == Len(entradas) IN
  IF \E i \in 1..n : entradas[i].chave = chave
  THEN entradas[CHOOSE i \in 1..n :
                  /\ entradas[i].chave = chave
                  /\ \A j \in (i + 1)..n : entradas[j].chave # chave].valor
  ELSE default

conformidade_ == <<"c","o","n","f","o","r","m","i","d","a","d","e","_">>

percentual_ == <<"p","e","r","c","e","n","t","u","a","l","_">>

\* the literal keys read back by the short names
chave_ecoli == <<"e","s","c","h","e","r","i","c","h","i","a","_","c","o","l","i">>

chave_coliformes == <<"c","o","l","i","f","o","r","m","e","s","_","t","o","t","a","i","s">>

chave_turbidez == <<"t","u","r","b","i","d","e","z","_","u","t">>

chave_cloro == <<"c","l","o","r","o","_","r","e","s","i","d","u","a","l","_","l","i","v","r","e","_","m","g","_","l">>

chave_fluoreto == <<"f","l","u","o","r","e","t","o","_","m","g","_","l">>

(***************************************************************************)
(* calcular_estatisticas                                                   *)
(***************************************************************************)
\* the dict of the except clause
EstatisticasDeErro ==
  [ total_amostras |-> 0, bairros_unicos |-> 0, conformidade_geral |-> Zero,
    nao_conformidade_geral |-> Zero, conformidade_ecoli |-> Zero,
    conformidade_coliformes |-> Zero, conformidade_turbidez |-> Zero,
    conformidade_cloro |-> Zero, conformidade_fluoreto |-> Zero ]

\* one pass of the loop over parametros_para_stats: the value for one parameter
conformidade_param(d, rs, param) ==
  IF "parametro" \in d.columns /\ ~empty(d)
  THEN (IF Len(onde(rs, "parametro", Str(param))) > 0
        THEN mean100(onde(rs, "parametro", Str(param))) ELSE Zero)
  ELSE Zero

\* the entries the loop writes, in order, under the generated keys
chaves_stats(d, rs) ==
  [ i \in 1..Len(parametros_para_stats) |->
      [ chave |-> conformidade_ \o param_key(parametros_para_stats[i]),
        valor |-> conformidade_param(d, rs, parametros_para_stats[i]) ] ]

\* the dict returned, given the overall percentage and the loop's entries
montar_stats(d, geral, chaves) ==
  [ total_amostras |-> Len(d.rows),
    bairros_unicos |-> IF "bairro" \in d.columns THEN nunique(coluna(d.rows, "bairro")) ELSE 0,
    conformidade_geral |-> geral,
    nao_conformidade_geral |-> IF ~empty(d) THEN Complemento(geral) ELSE Cem,
    chaves |-> chaves,
    conformidade_ecoli |-> dict_get(chaves, conformidade_ \o chave_ecoli, Zero),
    conformidade_coliformes |-> dict_get(chaves, conformidade_ \o chave_coliformes, Zero),
    conformidade_turbidez |-> dict_get(chaves, conformidade_ \o chave_turbidez, Zero),
    conformidade_cloro |-> dict_get(chaves, conformidade_ \o chave_cloro, Zero),
    conformidade_fluoreto |-> dict_get(chaves, conformidade_ \o chave_fluoreto, Zero) ]

\* the statistics of a frame whose 'conforme' column is rs
stats_de(d, rs) ==
  montar_stats(d, IF ~empty(d) THEN mean100(rs) ELSE Zero, chaves_stats(d, rs))

\* the body of the try block
estatisticas(d) == stats_de(d, apply_conforme(d.rows))

\* df.copy() raises on anything that is not a frame, inside the try block
calcular_estatisticas(d) ==
  IF d.obj # "DataFrame" THEN Returned(EstatisticasDeErro)
  ELSE Returned(estatisticas(d))

(***************************************************************************)
(* obter_dados_bairros, obter_distribuicao_mes,                            *)
(* obter_distribuicao_ponto_coleta                                         *)
(***************************************************************************)
\* one pass of the loop over the parameters of a group: None for no sample
percentual_param_zero(d, rs, param) ==
  IF Len(onde(rs, "parametro", Str(param))) > 0
  THEN mean100(onde(rs, "parametro", Str(param))) ELSE Zero

percentual_param(d, rs, param) ==
  IF "parametro" \in d.columns
  THEN (IF Len(onde(rs, "parametro", Str(param))) > 0
        THEN mean100(onde(rs, "parametro", Str(param))) ELSE NaN)
  ELSE NaN

\* the entries the loop writes for one group, in order, under the generated keys
chaves_grupo(d, rs) ==
  [ i \in 1..Len(parametros_para_stats) |->
      [ chave |-> percentual_ \o param_key(parametros_para_stats[i]),
        valor |-> percentual_param(d, rs, parametros_para_stats[i]) ] ]

\* the dict of one neighbourhood, given its rows and the loop's entries
montar_bairro(bairro_nome, total, percentual, chaves) ==
  [ bairro |-> bairro_nome,
    total_analises |-> total,
    percentual_conforme |-> percentual,
    chaves |-> chaves,
    percentual_ecoli |-> dict_get(chaves, percentual_ \o chave_ecoli, NaN),
    percentual_coliformes |-> dict_get(chaves, percentual_ \o chave_coliformes, NaN),
    percentual_turbidez |-> dict_get(chaves, percentual_ \o chave_turbidez, NaN),
    percentual_cloro |-> dict_get(chaves, percentual_ \o chave_cloro, NaN),
    percentual_fluoreto |-> dict_get(chaves, percentual_ \o chave_fluoreto, NaN) ]

bairro_de(d, bairro_nome, df_bairro) ==
  montar_bairro(bairro_nome, Len(df_bairro),
                IF Len(df_bairro) > 0 THEN mean100(df_bairro) ELSE Zero,
                chaves_grupo(d, df_bairro))

\* the dict appended for one neighbourhood
dados_bairro(d, bairro_nome) ==
  bairro_de(d, bairro_nome,
            apply_conforme(SelectSeq(d.rows,
              LAMBDA r : r["bairro"] # NaN /\ r["bairro"] = bairro_nome)))

bairros_de(d, nomes) == [i \in 1..Len(nomes) |-> dados_bairro(d, nomes[i])]

obter_dados_bairros(d) ==
  IF d.obj # "DataFrame" THEN Returned(<<>>)
  ELSE IF empty(d) \/ "bairro" \notin d.columns THEN Returned(<<>>)
  ELSE Returned(bairros_de(d, unique(coluna(d.rows, "bairro"))))

\* float_str for pd.to_numeric(errors='coerce'): NaN where the text is no number
coerce(x) == IF x # Fail THEN x ELSE NaN

\* pd.to_numeric(errors='coerce') of one cell
to_numeric(v) ==
  IF v.t = "num" THEN v
  ELSE IF v.t = "str" THEN coerce(float_str(v.s))
  ELSE NaN

\* a numeric cell equals the integer n
IgualInteiro(v, n) == v.t = "num" /\ v.m = n * Pow10(v.f)

nomes_meses ==
  << "Janeiro", "Fevereiro", "Março", "Abril", "Maio", "Junho",
     "Julho", "Agosto", "Setembro", "Outubro", "Novembro", "Dezembro" >>

\* the dict of one month, given the loop's entries
montar_mes(mes_num, total, percentual, chaves) ==
  [ mes |-> mes_num,
    nome_mes |-> nomes_meses[mes_num],
    total_amostras |-> total,
    percentual_conforme |-> percentual,
    chaves |-> chaves,
    percentual_ecoli |-> dict_get(chaves, percentual_ \o chave_ecoli, NaN),
    percentual_coliformes |-> dict_get(chaves, percentual_ \o chave_coliformes, NaN),
    percentual_turbidez |-> dict_get(chaves, percentual_ \o chave_turbidez, NaN),
    percentual_cloro |-> dict_get(chaves, percentual_ \o chave_cloro, NaN),
    percentual_fluoreto |-> dict_get(chaves, percentual_ \o chave_fluoreto, NaN) ]

\* the rows of month mes_num, after to_numeric and dropna
linhas_do_mes(d, mes_num) ==
  SelectSeq(d.rows, LAMBDA r : IgualInteiro(to_numeric(r["mes"]), mes_num))

mes_de(d, mes_num, df_mes_atual) ==
  montar_mes(mes_num, Len(df_mes_atual), mean100(df_mes_atual),
             chaves_grupo(d, df_mes_atual))

\* one pass of the loop over range(1, 13): the list with the month's dict, if any
dados_mes(d, mes_num, linhas) ==
  IF Len(linhas) > 0 THEN <<mes_de(d, mes_num, apply_conforme(linhas))>> ELSE <<>>

\* the loop over range(1, 13), up to and including month n
RECURSIVE meses_ate(_, _)
meses_ate(d, n) ==
  IF n = 0 THEN <<>>
  ELSE meses_ate(d, n - 1) \o dados_mes(d, n, linhas_do_mes(d, n))

obter_distribuicao_mes(d) ==
  IF d.obj # "DataFrame" THEN Returned(<<>>)
  ELSE IF empty(d) \/ "mes" \notin d.columns THEN Returned(<<>>)
  ELSE Returned(meses_ate(d, Len(nomes_meses)))

ponto_de(ponto_coleta_nome, df_ponto) ==
  [ ponto_de_coleta |-> ponto_coleta_nome,
    total_analises |-> Len(df_ponto),
    percentual_conforme |-> IF Len(df_ponto) > 0 THEN mean100(df_ponto) ELSE Zero ]

\* the dict of one collection point
dados_ponto(d, ponto_coleta_nome) ==
  ponto_de(ponto_coleta_nome,
           apply_conforme(SelectSeq(d.rows,
             LAMBDA r : r["ponto_de_coleta"] # NaN
                        /\ r["ponto_de_coleta"] = ponto_coleta_nome)))

pontos_de(d, nomes) ==
  SelectSeq([i \in 1..Len(nomes) |-> dados_ponto(d, nomes[i])],
            LAMBDA g : g.total_analises > 0)

obter_distribuicao_ponto_coleta(d) ==
  IF d.obj # "DataFrame" THEN Returned(<<>>)
  ELSE IF empty(d) \/ "ponto_de_coleta" \notin d.columns THEN Returned(<<>>)
  ELSE Returned(pontos_de(d, unique(coluna(d.rows, "ponto_de_coleta"))))

(***************************************************************************)
(* carregar_dados.  The data source is the CSV file as read_csv types it,  *)
(* or a missing file; filtros is None or a dict of criteria.  A loaded     *)
(* frame keeps the index label (the position in the file) of each row.     *)
(***************************************************************************)
Csv(columns, rows) == [obj |-> "csv", columns |-> columns, rows |-> rows]

ArquivoAusente == [obj |-> "missing"]

\* a file read_csv cannot read: empty, not text, no permission
ArquivoIlegivel == [obj |-> "unreadable"]

Dict(items) == [obj |-> "dict", items |-> items]

Indexed(columns, rows, index) ==
  [obj |-> "DataFrame", columns |-> columns, rows |-> rows, index |-> index]

\* the failure of a step of the try block
Erro == [obj |-> "Exception"]

todos == Str(<<"t","o","d","o","s">>)

\* filtros.get(k)
filtro(f, k) == IF k \in DOMAIN f.items THEN f.items[k] ELSE NaN

\* truth value of a criterion: None, '' and 0 are false
truthy(v) == v # NaN /\ v # Str(<<>>) /\ ~(v.t = "num" /\ v.m = 0)

\* filtros.get(k) and filtros[k] != 'todos'
ativo_sem_todos(f, k) == truthy(filtro(f, k))

ativo(f, k) == truthy(filtro(f, k)) /\ filtro(f, k) # todos

\* int(text): blanks around, an optional sign, digits only
int_str(s) ==
  LET t      == strip(s)
      signed == t # <<>> /\ Head(t) \in {"+", "-"}
      body   == IF signed THEN Tail(t) ELSE t
      mag    == DigitsValue(body)
  IN  IF body = <<>> \/ \E i \in 1..Len(body) : IndexOf(body[i], Digits10) = 0 THEN Fail
      ELSE Num(IF signed /\ Head(t) = "-" THEN 0 - mag ELSE mag, 0)

\* int(x) of a criterion: a JSON number is truncated toward zero, text is parsed
int(v) ==
  IF v.t = "num"
  THEN Num(IF v.m >= 0 THEN v.m \div Pow10(v.f) ELSE 0 - ((0 - v.m) \div Pow10(v.f)), 0)
  ELSE IF v.t = "str" THEN int_str(v.s)
  ELSE Fail

\* df[mask]: the rows of d at the positions of mask, in the order of d
manter(d, mask) ==
  LET pos == SelectSeq([i \in 1..Len(d.rows) |-> i], LAMBDA i : i \in mask)
  IN  Indexed(d.columns, [j \in 1..Len(pos) |-> d.rows[pos[j]]],
              [j \in 1..Len(pos) |-> d.index[pos[j]]])

\* df[col] = pd.to_numeric(df[col], errors='coerce')
numerica(d, col) ==
  Indexed(d.columns,
          [i \in 1..Len(d.rows) |-> [d.rows[i] EXCEPT ![col] = to_numeric(@)]],
          d.index)

\* df[col] == n, on a numeric column: a null cell equals nothing
igual_a_inteiro(d, col, n) == {i \in 1..Len(d.rows) : IgualInteiro(d.rows[i][col], n)}

\* df[col] == valor
igual_a(d, col, v) == {i \in 1..Len(d.rows) : d.rows[i][col] # NaN /\ d.rows[i][col] = v}

\* dropna and the comparison with the integer, on the converted column
selecionar_inteiro(d, col, n) == manter(d, igual_a_inteiro(d, col, n))

\* to_numeric, dropna and the comparison with int(valor)
filtrar_inteiro(d, col, n) ==
  IF n = Fail THEN Erro
  ELSE selecionar_inteiro(numerica(d, col), col, n.m)

\* the block of one of the criteria 'ano' and 'mes'
filtro_numerico(d, f, col) ==
  IF d = Erro \/ ~ativo(f, col) \/ col \notin d.columns THEN d
  ELSE filtrar_inteiro(d, col, int(filtro(f, col)))

\* the block of one of the criteria 'bairro' and 'parametro'
filtro_texto(d, f, col) ==
  IF d = Erro \/ ~ativo(f, col) \/ col \notin d.columns THEN d
  ELSE manter(d, igual_a(d, col, filtro(f, col)))

\* 'if filtros:' and the four blocks in order
aplicar_filtros(d, f) ==
  IF f = NaN \/ DOMAIN f.items = {} THEN d
  ELSE filtro_texto(filtro_texto(filtro_numerico(filtro_numerico(d, f, "ano"),
                                                 f, "mes"),
                                 f, "bairro"),
                    f, "parametro")

expected_cols ==
  {"latitude", "longitude", "bairro", "parametro", "resultado", "resultado_numerico",
   "ponto_de_coleta", "data_da_coleta", "unidade_de_medida", "id"}

\* the missing expected columns added as null, latitude and longitude made numeric
completar(d) ==
  IF d = Erro THEN d
  ELSE Indexed(d.columns \cup expected_cols,
               [i \in 1..Len(d.rows) |->
                  [c \in d.columns \cup expected_cols |->
                     IF c \notin d.columns THEN NaN
                     ELSE IF c \in {"latitude", "longitude"} THEN to_numeric(d.rows[i][c])
                     ELSE d.rows[i][c]]],
               d.index)

\* the empty frame of the two except clauses
FrameVazio == Indexed(expected_cols \cup {"ano", "mes"}, <<>>, <<>>)

\* a function without the except clauses: the failure leaves it
sem_except(d) == d

\* what the try block yields, or the empty frame when a step raised
ou_vazio(d) == IF d = Erro THEN FrameVazio ELSE d

\* pd.read_csv(CSV_PATH)
read_csv(fonte) ==
  IF fonte.obj \in {"missing", "unreadable"} THEN Erro
  ELSE Indexed(fonte.columns, fonte.rows, [i \in 1..Len(fonte.rows) |-> i])

carregar_dados(fonte, f) ==
  Returned(ou_vazio(completar(aplicar_filtros(read_csv(fonte), f))))

\* what carregar_dados prints: the message of the except clause that ran
SemAviso == <<>>

aviso_da_carga(fonte, f) ==
  IF fonte.obj = "missing" THEN <<"Error: CSV file not found.">>
  ELSE IF completar(aplicar_filtros(read_csv(fonte), f)) = Erro THEN <<"Error loading data">>
  ELSE SemAviso

(***************************************************************************)
(* The map and the routes.  The files of the server are the map written    *)
(* to static/mapa_coletas.html, templates/index.html and the GeoJSON of    *)
(* the neighbourhoods; a handler yields its response and the map file it   *)
(* leaves behind.                                                          *)
(***************************************************************************)
Arquivos(mapa, index_html, geojson) ==
  [obj |-> "files", mapa_coletas |-> mapa, index_html |-> index_html, geojson |-> geojson]

\* static/mapa_coletas.html before any map is saved
SemMapa == [obj |-> "no file"]

Mapa(limites, marcadores) == [obj |-> "map", limites |-> limites, marcadores |-> marcadores]

\* the map with the single marker of the fatal error
MapaDeErro == [obj |-> "map", limites |-> FALSE, marcadores |-> <<[cor |-> "error"]>>]

\* the positions of the rows that have both coordinates
com_coordenadas(d) ==
  IF "latitude" \in d.columns /\ "longitude" \in d.columns
  THEN SelectSeq([i \in 1..Len(d.rows) |-> i],
                 LAMBDA i : /\ to_numeric(d.rows[i]["latitude"]) # NaN
                            /\ to_numeric(d.rows[i]["longitude"]) # NaN)
  ELSE <<>>

\* 'green' if conforme_status else 'red'
cor_de(status) == IF status = Returned(TRUE) THEN "green" ELSE "red"

\* the CircleMarker of one sample: its colour and what the popup shows
marcador(d, i) ==
  [ cor |-> cor_de(verificar_conformidade(Series(d.rows[i]))),
    id |-> d.index[i],
    bairro |-> d.rows[i]["bairro"],
    ponto_de_coleta |-> d.rows[i]["ponto_de_coleta"],
    parametro |-> d.rows[i]["parametro"],
    resultado |-> d.rows[i]["resultado"] ]

marcadores_de(d, pos) == [j \in 1..Len(pos) |-> marcador(d, pos[j])]

\* whether the map was made, and the file saved at static/mapa_coletas.html
criar_mapa_coletas(d, geojson) ==
  IF d.obj # "DataFrame" THEN [ok |-> FALSE, mapa |-> MapaDeErro]
  ELSE [ok |-> TRUE, mapa |-> Mapa(geojson, marcadores_de(d, com_coordenadas(d)))]

\* the order of sorted() on text: code points, here of blanks and letters
Ord(c) == IndexOf(c, Upper26 \o Lower26)

RECURSIVE Menor(_, _)
Menor(a, b) ==
  IF a = <<>> THEN b # <<>>
  ELSE IF b = <<>> THEN FALSE
  ELSE IF Head(a) = Head(b) THEN Menor(Tail(a), Tail(b))
  ELSE Ord(Head(a)) < Ord(Head(b))

\* df[col].dropna()
dropna(s) == SelectSeq(s, LAMBDA v : v # NaN)

\* sorted(values): text and numbers do not compare
sorted(s) ==
  IF \A i \in 1..Len(s) : s[i].t = "str"
  THEN SortSeq(s, LAMBDA a, b : Menor(a.s, b.s))
  ELSE IF \A i \in 1..Len(s) : s[i].t = "num"
  THEN SortSeq(s, LAMBDA a, b : Leq(a, b) /\ a # b)
  ELSE Erro

bairros_lista(d) ==
  IF "bairro" \in d.columns /\ Len(d.rows) > 0
  THEN sorted(unique(dropna(coluna(d.rows, "bairro"))))
  ELSE <<>>

\* an exception no handler catches: the server answers 500
ErroDoServidor == [kind |-> "unhandled", status |-> 500]

Pagina(contexto) == [kind |-> "page", status |-> 200, contexto |-> contexto]

Json(corpo) == [kind |-> "json", status |-> 200, corpo |-> corpo]

\* render_template('index.html', ...): TemplateNotFound without the file
render_template(index_html, contexto) ==
  IF index_html THEN Pagina(contexto) ELSE Erro

\* the response of a handler whose last call was render_template
resposta_de(pagina) == IF pagina = Erro THEN ErroDoServidor ELSE pagina

\* the except clause of index
index_except(arqs) ==
  resposta_de(render_template(arqs.index_html,
    [ stats |-> <<>>, bairros |-> <<>>, ultima_atualizacao |-> "Erro ao carregar dados",
      error_message |-> "str(e)" ]))

\* render_template of the try block of index, and the except clause when it raises
index_render(stats, lista, arqs) ==
  IF render_template(arqs.index_html, <<>>) = Erro THEN index_except(arqs)
  ELSE render_template(arqs.index_html,
         [ stats |-> stats, bairros |-> lista, ultima_atualizacao |-> "now" ])

\* index once the frame is loaded and the list of neighbourhoods evaluated
index_com(d, lista, arqs) ==
  IF lista = Erro
  THEN [resposta |-> index_except(arqs), mapa |-> arqs.mapa_coletas]
  ELSE [ resposta |-> index_render(calcular_estatisticas(d).val, lista, arqs),
         mapa |-> criar_mapa_coletas(d, arqs.geojson).mapa ]

index_de(d, arqs) == index_com(d, bairros_lista(d), arqs)

\* GET /
index(fonte, arqs) == index_de(carregar_dados(fonte, NaN).val, arqs)

\* a request body that request.json rejects
CorpoInvalido == [obj |-> "BadRequest"]

\* response_data: the statistics with map_status and map_path
response_data(stats, criado) ==
  [ stats |-> stats,
    map_status |-> IF criado.ok THEN "success" ELSE "error",
    map_path |-> "/static/mapa_coletas.html" ]

filtrar_com(d, criado) ==
  [ resposta |-> Json(response_data(calcular_estatisticas(d).val, criado)),
    mapa |-> criado.mapa ]

filtrar_de(d, arqs) == filtrar_com(d, criar_mapa_coletas(d, arqs.geojson))

\* POST /api/filtrar_dados
api_filtrar_dados(fonte, corpo, arqs) ==
  IF corpo = CorpoInvalido
  THEN [ resposta |-> Json([error |-> "str(e)", map_status |-> "error"]),
         mapa |-> arqs.mapa_coletas ]
  ELSE filtrar_de(carregar_dados(fonte, corpo).val, arqs)

\* GET /api/bairros
api_bairros(fonte, args) == Json(obter_dados_bairros(carregar_dados(fonte, args).val).val)

\* GET /api/distribuicao_mes
api_distribuicao_mes(fonte, args) ==
  Json(obter_distribuicao_mes(carregar_dados(fonte, args).val).val)

\* GET /api/distribuicao_ponto_coleta
api_distribuicao_ponto_coleta(fonte, args) ==
  Json(obter_distribuicao_ponto_coleta(carregar_dados(fonte, args).val).val)

\* POST /atualizar_dados
atualizar_dados ==
  Json([ status |-> "success", message |-> "Dados atualizados com sucesso (simulação)",
         ultima_atualizacao |-> "now" ])

\* GET /static/mapa_coletas.html
serve_static(arqs) ==
  IF arqs.mapa_coletas = SemMapa THEN [kind |-> "not found", status |-> 404]
  ELSE [kind |-> "file", status |-> 200, corpo |-> arqs.mapa_coletas]

(***************************************************************************)
(* Inputs of the evaluator.                                                *)
(***************************************************************************)
RECURSIVE Blanks(_)
Blanks(n) == IF n = 0 THEN <<>> ELSE <<" ">> \o Blanks(n - 1)

Palavras ==
  { AUSENTE,
    <<"a","u","s","e","n","t","e">>,
    <<"A","u","s","e","n","t","e">>,
    <<"A","U","S","E","N","T","E","S">>,
    <<"A","U","S"," ","E","N","T","E">>,
    <<"P","R","E","S","E","N","T","E">> }

PalavrasComBrancos ==
  { Blanks(l) \o w \o Blanks(r) : l \in 0..MaxPad, r \in 0..MaxPad, w \in Palavras }

Alfabeto == {"1", "2", "5", ",", ".", " "}

RECURSIVE Textos(_)
Textos(n) ==
  IF n = 0 THEN {<<>>}
  ELSE LET menores == Textos(n - 1)
       IN  menores \cup { <<c>> \o s : c \in Alfabeto, s \in {x \in menores : Len(x) = n - 1} }

Resultados == {NaN} \cup {Str(s) : s \in PalavrasComBrancos \cup Textos(MaxStr)}

ResultadosNumericos ==
  { NaN, Num(1, 1), Num(2, 1), Num(15, 1), Num(16, 1), Num(50, 1), Num(51, 1),
    Str(<<"1",",","5">>), Str(<<"1",".","5">>) }

Parametros ==
  { NaN, Str(<<>>), Str(<<"p","H">>), Num(10, 1), Lista }
  \cup { Str(k) : k \in DOMAIN VALORES_REFERENCIA }

Rows ==
  { Series([parametro |-> p, resultado |-> x, resultado_numerico |-> n]) :
      p \in Parametros, x \in Resultados, n \in ResultadosNumericos }
  \cup { Series([resultado |-> x]) : x \in Resultados }
  \cup { NoneRow }

(***************************************************************************)
(* The evaluator applied to one row.                                       *)
(***************************************************************************)
NoRet == [kind |-> "none"]

\* no file of the server is looked at, no client is connected
SemArquivos == [obj |-> "None"]

SemClientes == <<>>

InitEval ==
  /\ pc = "start"
  /\ row \in Rows
  /\ df = NoneFrame
  /\ csv = NoneFrame
  /\ filtros = NaN
  /\ ret = NoRet
  /\ arquivos = SemArquivos
  /\ reqs = SemClientes

Avaliar ==
  /\ pc = "start"
  /\ ret' = verificar_conformidade(row)
  /\ pc' = "done"
  /\ UNCHANGED inputs

NextEval == Avaliar

SpecEval == InitEval /\ [][NextEval]_vars

(***************************************************************************)
(* Claims about the evaluator (SpecEval).                                  *)
(***************************************************************************)
CincoParametros ==
  {EscherichiaColi, ColiformesTotais, Turbidez, CloroResidualLivre, Fluoreto}

AvaliouSeries == pc = "done" /\ row.obj = "Series"

\* C1: for every record whose parameter is null, empty or not one of the five
\* keys of VALORES_REFERENCIA, verificar_conformidade returns false, whatever
\* the result and the numeric result are.
C1_ParametroDesconhecidoNaoConforme ==
  AvaliouSeries =>
    LET p == get(row, "parametro")
    IN  (p = NaN \/ p = Str(<<>>) \/ p \notin {Str(k) : k \in CincoParametros})
          => ret = Returned(FALSE)

\* an unknown parameter with a result and a numeric result that would pass
\* every rule of the table
C1_Witness ==
  /\ AvaliouSeries
  /\ row.cells = [parametro |-> Str(<<"p","H">>), resultado |-> Str(AUSENTE),
                  resultado_numerico |-> Num(15, 1)]
  /\ ret = Returned(FALSE)

SentinelaMinuscula == <<"a","u","s","e","n","t","e">>

\* s is the sentinel, in any mix of cases, between two runs of blanks
SentinelaEntreBrancos(s) ==
  \E i \in 0..Len(s) :
    /\ i + 7 <= Len(s)
    /\ \A k \in 1..i : s[k] \in Whitespace
    /\ \A k \in (i + 8)..Len(s) : s[k] \in Whitespace
    /\ \A k \in 1..7 : s[i + k] \in {AUSENTE[k], SentinelaMinuscula[k]}

\* C2: for a parameter with an absence rule the evaluator returns true if and
\* only if the result is non-null and, trimmed and uppercased, is exactly
\* AUSENTE; the numeric result plays no part and a null result gives false.
C2_AusenciaExata ==
  (AvaliouSeries /\ get(row, "parametro") \in {Str(EscherichiaColi), Str(ColiformesTotais)})
    => LET x == get(row, "resultado")
       IN  ret = Returned(x # NaN /\ SentinelaEntreBrancos(x.s))

\* a padded lowercase sentinel passes although the numeric result is a number
C2_Witness ==
  /\ AvaliouSeries
  /\ row.cells = [parametro |-> Str(EscherichiaColi),
                  resultado |-> Str(<<" ","a","u","s","e","n","t","e"," ">>),
                  resultado_numerico |-> Num(51, 1)]
  /\ ret = Returned(TRUE)

\* the value the claim resolves: the numeric result when non-null, otherwise
\* the result read as a number with its decimal commas taken as points
ValorResolvido(r) ==
  LET n == get(r, "resultado_numerico")
      x == get(r, "resultado")
  IN  IF n # NaN THEN float(n)
      ELSE IF x = NaN THEN Fail
      ELSE float_str([i \in 1..Len(x.s) |-> IF x.s[i] = "," THEN "." ELSE x.s[i]])

\* v <= 5.0, v <= 1.5 and 0.2 <= v <= 5.0 on tenths, bounds included
SatisfazRegra(p, v) ==
  IF p = Turbidez THEN 10 * v.m <= 50 * Pow10(v.f)
  ELSE IF p = Fluoreto THEN 10 * v.m <= 15 * Pow10(v.f)
  ELSE 2 * Pow10(v.f) <= 10 * v.m /\ 10 * v.m <= 50 * Pow10(v.f)

\* C3: for a parameter with a maximum or range rule the evaluator returns true
\* if and only if a numeric value is resolved (the numeric result when
\* non-null, otherwise the result parsed with decimal commas as points) and it
\* satisfies value <= bound, or min <= value <= max, bounds included.
C3_RegraNumerica ==
  (AvaliouSeries /\ get(row, "parametro") \in {Str(Turbidez), Str(CloroResidualLivre), Str(Fluoreto)})
    => LET v == ValorResolvido(row)
       IN  ret = Returned(v # Fail /\ SatisfazRegra(get(row, "parametro").s, v))

\* "1,5" with no numeric result is read as 1.5 and passes the fluoride bound
C3_Witness ==
  /\ AvaliouSeries
  /\ row.cells = [parametro |-> Str(Fluoreto), resultado |-> Str(<<"1",",","5">>),
                  resultado_numerico |-> NaN]
  /\ ret = Returned(TRUE)

Barra == Str(<<"B","a","r","r","a">>)

Pituba == Str(<<"P","i","t","u","b","a">>)

Ponto1 == Str(<<"P","1">>)

Ponto2 == Str(<<"P","2">>)

Amostra(b, pt, m, p, x, n) ==
  [ bairro |-> b, ponto_de_coleta |-> pt, mes |-> m, parametro |-> p,
    resultado |-> x, resultado_numerico |-> n ]

Amostras ==
  { Amostra(Barra, Ponto1, Num(1, 0), Str(EscherichiaColi), Str(AUSENTE), NaN),
    Amostra(Barra, Ponto2, Num(2, 0), Str(Turbidez), NaN, Num(60, 1)),
    Amostra(Pituba, Ponto1, Num(1, 0), Str(Turbidez), Str(<<"1",",","5">>), NaN),
    Amostra(NaN, NaN, NaN, Str(CloroResidualLivre), NaN, Num(2, 1)),
    Amostra(Pituba, Ponto2, Num(13, 0), Str(<<"p","H">>), Str(<<"7">>), Num(70, 1)),
    Amostra(Barra, Ponto1, Str(<<"a","b","c">>), NaN, Str(AUSENTE), NaN),
    Amostra(Pituba, NaN, Num(12, 0), Str(ColiformesTotais), Str(<<"P","R","E","S","E","N","T","E">>), NaN),
    Amostra(Barra, Ponto2, Str(<<"2">>), Str(Fluoreto), NaN, NaN) }

Colunas == {"bairro", "ponto_de_coleta", "mes", "parametro", "resultado", "resultado_numerico"}

RECURSIVE SeqsAte(_, _)
SeqsAte(S, n) ==
  IF n = 0 THEN {<<>>}
  ELSE LET menores == SeqsAte(S, n - 1)
       IN  menores \cup { Append(s, x) : s \in {y \in menores : Len(y) = n - 1}, x \in S }

Frames ==
  LET completos == { DataFrame(Colunas, rows) : rows \in SeqsAte(Amostras, MaxRows) }
  IN  completos \cup { NoneFrame }

InitAgg ==
  /\ pc = "start"
  /\ row = NoneRow
  /\ df \in Frames
  /\ csv = NoneFrame
  /\ filtros = NaN
  /\ ret = NoRet
  /\ arquivos = SemArquivos
  /\ reqs = SemClientes

CalcularEstatisticas ==
  /\ pc = "start"
  /\ ret' = calcular_estatisticas(df)
  /\ pc' = "calcular_estatisticas"
  /\ UNCHANGED inputs

ObterDadosBairros ==
  /\ pc = "start"
  /\ ret' = obter_dados_bairros(df)
  /\ pc' = "obter_dados_bairros"
  /\ UNCHANGED inputs

ObterDistribuicaoMes ==
  /\ pc = "start"
  /\ ret' = obter_distribuicao_mes(df)
  /\ pc' = "obter_distribuicao_mes"
  /\ UNCHANGED inputs

ObterDistribuicaoPontoColeta ==
  /\ pc = "start"
  /\ ret' = obter_distribuicao_ponto_coleta(df)
  /\ pc' = "obter_distribuicao_ponto_coleta"
  /\ UNCHANGED inputs

NextAgg ==
  \/ CalcularEstatisticas
  \/ ObterDadosBairros
  \/ ObterDistribuicaoMes
  \/ ObterDistribuicaoPontoColeta

SpecAgg == InitAgg /\ [][NextAgg]_vars

(***************************************************************************)
(* Claims about the aggregators (SpecAgg).                                 *)
(***************************************************************************)
EFrame == df.obj = "DataFrame"

\* the rows of the input the evaluator accepts, among the rows idx
Conformes(idx) ==
  {i \in idx : verificar_conformidade(Series(df.rows[i])) = Returned(TRUE)}

\* the fraction x is num / den
PctIgual(x, num, den) == x # NaN /\ x.den > 0 /\ x.num * den = num * x.den

\* x is 100 * compliant / size over the rows idx
PctDe(x, idx) == PctIgual(x, 100 * Cardinality(Conformes(idx)), Cardinality(idx))

Todas == 1..Len(df.rows)

DoParametro(p) == {i \in Todas : df.rows[i]["parametro"] = Str(p)}

\* C5: conformidade_geral is 100 x (records the evaluator accepts) /
\* total_amostras, total_amostras counting every record of the set, those
\* with a null or unknown parameter or an unparsable result included; it is 0
\* for the empty set.
C5_ConformidadeGeral ==
  (pc = "calcular_estatisticas" /\ EFrame) =>
    /\ ret.val.total_amostras = Len(df.rows)
    /\ IF Todas = {} THEN PctIgual(ret.val.conformidade_geral, 0, 1)
       ELSE PctDe(ret.val.conformidade_geral, Todas)

\* one accepted record and one of an unknown parameter: 50, out of 2 samples
C5_Witness ==
  /\ pc = "calcular_estatisticas"
  /\ EFrame
  /\ Len(df.rows) = 2
  /\ df.rows[1]["parametro"] = Str(EscherichiaColi)
  /\ df.rows[2]["parametro"] = Str(<<"p","H">>)
  /\ ret.val.total_amostras = 2
  /\ ret.val.conformidade_geral = Rat(50, 1)

\* nao_conformidade_geral + conformidade_geral = 100
SomamCem(st) ==
  st.nao_conformidade_geral.num * st.conformidade_geral.den
    + st.conformidade_geral.num * st.nao_conformidade_geral.den
  = 100 * st.conformidade_geral.den * st.nao_conformidade_geral.den

PorParametro(st) ==
  (EscherichiaColi :> st.conformidade_ecoli)
  @@ (ColiformesTotais :> st.conformidade_coliformes)
  @@ (Turbidez :> st.conformidade_turbidez)
  @@ (CloroResidualLivre :> st.conformidade_cloro)
  @@ (Fluoreto :> st.conformidade_fluoreto)

\* C7: for each of the five named parameters calcular_estatisticas reports
\* 100 x compliant / size over the records of that parameter only, and 0 when
\* there is none; records of other parameters never change it.
C7_ConformidadePorParametro ==
  (pc = "calcular_estatisticas" /\ EFrame) =>
    \A p \in CincoParametros :
      IF DoParametro(p) = {} THEN PctIgual(PorParametro(ret.val)[p], 0, 1)
      ELSE PctDe(PorParametro(ret.val)[p], DoParametro(p))

\* the scenario of the spec: E. coli AUSENTE and Turbidez 6.0 give overall 50,
\* E. coli 100, Turbidez 0
C7_Witness ==
  /\ pc = "calcular_estatisticas"
  /\ EFrame
  /\ df.rows = << Amostra(Barra, Ponto1, Num(1, 0), Str(EscherichiaColi), Str(AUSENTE), NaN),
                  Amostra(Barra, Ponto2, Num(2, 0), Str(Turbidez), NaN, Num(60, 1)) >>
  /\ ret.val.conformidade_geral = Rat(50, 1)
  /\ ret.val.conformidade_ecoli = Rat(100, 1)
  /\ ret.val.conformidade_turbidez = Rat(0, 1)

Agrupou == pc \in {"obter_dados_bairros", "obter_distribuicao_mes", "obter_distribuicao_ponto_coleta"}

\* the sample count of a group, under the name its aggregator gives it
Contagem(g) == IF pc = "obter_distribuicao_mes" THEN g.total_amostras ELSE g.total_analises

RECURSIVE SomaContagens(_)
SomaContagens(gs) ==
  IF gs = <<>> THEN 0 ELSE Contagem(Head(gs)) + SomaContagens(Tail(gs))

\* C8: for each grouping aggregator and every record set, records with a null,
\* non-numeric or out-of-range grouping key included, the sample counts of the
\* emitted groups add up to the number of records in the set.
C8_SomaDosGrupos ==
  (Agrupou /\ EFrame) => SomaContagens(ret.val) = Len(df.rows)

\* the rows a group of the neighbourhood or month aggregator is made of
DoGrupo(g) ==
  IF pc = "obter_dados_bairros"
  THEN {i \in Todas : g.bairro # NaN /\ df.rows[i]["bairro"] = g.bairro}
  ELSE {i \in Todas : IgualInteiro(to_numeric(df.rows[i]["mes"]), g.mes)}

PorParametroDoGrupo(g) ==
  (EscherichiaColi :> g.percentual_ecoli)
  @@ (ColiformesTotais :> g.percentual_coliformes)
  @@ (Turbidez :> g.percentual_turbidez)
  @@ (CloroResidualLivre :> g.percentual_cloro)
  @@ (Fluoreto :> g.percentual_fluoreto)

CamposPorParametro ==
  {"percentual_ecoli", "percentual_coliformes", "percentual_turbidez",
   "percentual_cloro", "percentual_fluoreto"}

\* count, overall percentage and the five per-parameter values of one group,
\* a per-parameter value being null exactly when the group has no such record
GrupoCompleto(g) ==
  /\ CamposPorParametro \subseteq DOMAIN g
  /\ Contagem(g) = Cardinality(DoGrupo(g))
  /\ IF DoGrupo(g) = {} THEN PctIgual(g.percentual_conforme, 0, 1)
     ELSE PctDe(g.percentual_conforme, DoGrupo(g))
  /\ \A p \in CincoParametros :
       IF DoGrupo(g) \cap DoParametro(p) = {} THEN PorParametroDoGrupo(g)[p] = NaN
       ELSE PctDe(PorParametroDoGrupo(g)[p], DoGrupo(g) \cap DoParametro(p))

DoPonto(g) ==
  {i \in Todas : g.ponto_de_coleta # NaN /\ df.rows[i]["ponto_de_coleta"] = g.ponto_de_coleta}

\* C9 as claimed: each of the three grouping aggregators emits, for every
\* group, the sample count, the overall percentage and the five per-parameter
\* percentages, null exactly when the group has no record of the parameter.
C9_TresAgregadoresPorParametro ==
  (Agrupou /\ EFrame) =>
    \A k \in 1..Len(ret.val) : CamposPorParametro \subseteq DOMAIN ret.val[k]

\* C9 as amended: the neighbourhood and month aggregators emit, for every
\* group, the sample count, the overall percentage and the five per-parameter
\* percentages, null exactly when the group has no record of the parameter;
\* the collection-point aggregator emits the key, the sample count and the
\* overall percentage only.
C9_BairroEMesPorParametro ==
  (Agrupou /\ EFrame) =>
    \A k \in 1..Len(ret.val) :
      IF pc = "obter_distribuicao_ponto_coleta"
      THEN /\ DOMAIN ret.val[k] = {"ponto_de_coleta", "total_analises", "percentual_conforme"}
           /\ ret.val[k].total_analises = Cardinality(DoPonto(ret.val[k]))
           /\ PctDe(ret.val[k].percentual_conforme, DoPonto(ret.val[k]))
      ELSE GrupoCompleto(ret.val[k])

\* one neighbourhood with an accepted E. coli sample and no turbidity sample:
\* 100 for E. coli, null for turbidity
C9_Witness ==
  /\ pc = "obter_dados_bairros"
  /\ EFrame
  /\ Len(ret.val) = 1
  /\ ret.val[1].bairro = Barra
  /\ ret.val[1].total_analises = 1
  /\ ret.val[1].percentual_ecoli = Rat(100, 1)
  /\ ret.val[1].percentual_turbidez = NaN

(***************************************************************************)
(* Inputs of the load: sources of at most MaxLinhas records and criteria.  *)
(***************************************************************************)
Registro(a, m, b, p) ==
  [ ano |-> a, mes |-> m, bairro |-> b, parametro |-> p, resultado |-> NaN,
    resultado_numerico |-> Num(15, 1), ponto_de_coleta |-> Ponto1 ]

Registros ==
  { Registro(Num(2023, 0), Num(1, 0), Barra, Str(Turbidez)),
    Registro(Num(2022, 0), Num(1, 0), Barra, Str(EscherichiaColi)),
    Registro(Str(<<"a","b","c">>), Num(2, 0), Pituba, Str(Turbidez)),
    Registro(NaN, NaN, NaN, NaN),
    Registro(Str(<<"2","0","2","3">>), Str(<<"1">>), Pituba, Str(EscherichiaColi)) }

ColunasCsv ==
  {"ano", "mes", "bairro", "parametro", "resultado", "resultado_numerico", "ponto_de_coleta"}

\* a source without one column: every record loses the cell
SemColuna(fonte, col) ==
  Csv(fonte.columns \ {col},
      [i \in 1..Len(fonte.rows) |-> [c \in fonte.columns \ {col} |-> fonte.rows[i][c]]])

Fontes ==
  LET completas == { Csv(ColunasCsv, rows) : rows \in SeqsAte(Registros, MaxLinhas) }
  IN  completas \cup { SemColuna(c, "ano") : c \in completas } \cup { ArquivoAusente, ArquivoIlegivel }

ValoresAno ==
  { NaN, todos, Str(<<>>), Str(<<"2","0","2","3">>), Num(2023, 0), Str(<<"a","b","c">>) }

ValoresMes == { NaN, todos, Str(<<"1">>) }

ValoresBairro == { NaN, Barra }

ValoresParametro == { NaN, Str(Turbidez) }

\* a dict holds a key only when the request gave it a value
DictDe(a, m, b, p) ==
  LET dados == [ano |-> a, mes |-> m, bairro |-> b, parametro |-> p]
      dadas == {k \in DOMAIN dados : dados[k] # NaN}
  IN  Dict([k \in dadas |-> dados[k]])

Filtros ==
  { NaN } \cup { DictDe(a, m, b, p) : a \in ValoresAno, m \in ValoresMes,
                                     b \in ValoresBairro, p \in ValoresParametro }

InitLoad ==
  /\ pc = "start"
  /\ row = NoneRow
  /\ df = NoneFrame
  /\ csv \in Fontes
  /\ filtros \in Filtros
  /\ ret = NoRet
  /\ arquivos = SemArquivos
  /\ reqs = SemClientes

CarregarDados ==
  /\ pc = "start"
  /\ ret' = carregar_dados(csv, filtros)
  /\ pc' = "carregar_dados"
  /\ UNCHANGED inputs

NextLoad == CarregarDados

SpecLoad == InitLoad /\ [][NextLoad]_vars

(***************************************************************************)
(* Properties of the load.                                                 *)
(***************************************************************************)
Criterios == {"ano", "mes", "bairro", "parametro"}

Carregou == pc = "carregar_dados"

\* the records of the data source, none when the file is missing
Registrados == IF csv.obj = "csv" THEN csv.rows ELSE <<>>

\* the criterion k has a value in the request
Presente(k) == filtros # NaN /\ k \in DOMAIN filtros.items

ValorDoCriterio(k) == filtros.items[k]

\* the value is neither empty nor zero
ComValor(v) == v \notin {Str(<<>>), Num(0, 0)}

\* the criterion k takes part in the selection
CriterioAtivo(k) ==
  /\ Presente(k)
  /\ ValorDoCriterio(k) # todos
  /\ ComValor(ValorDoCriterio(k))
  /\ csv.obj = "csv" /\ k \in csv.columns

\* the years and months of the records and of the requests
Inteiros == {1, 2, 2022, 2023}

\* the integers a value of ano or mes stands for
InteirosDe(v) ==
  LET x == to_numeric(v) IN { n \in Inteiros : x # NaN /\ IgualInteiro(x, n) }

\* the record at position i satisfies the criterion k
Satisfaz(i, k) ==
  IF k \in {"ano", "mes"}
  THEN /\ InteirosDe(ValorDoCriterio(k)) # {}
       /\ InteirosDe(Registrados[i][k]) = InteirosDe(ValorDoCriterio(k))
  ELSE Registrados[i][k] = ValorDoCriterio(k)

Selecionados == { i \in 1..Len(Registrados) : \A k \in Criterios : CriterioAtivo(k) => Satisfaz(i, k) }

\* the loaded frame lists the positions in increasing order, each with its record
EmOrdemDeEntrada(d) ==
  /\ \A j \in 1..Len(d.index) - 1 : d.index[j] < d.index[j + 1]
  /\ \A j \in 1..Len(d.index) :
       \A c \in csv.columns \ {"ano", "mes", "latitude", "longitude"} :
         d.rows[j][c] = Registrados[d.index[j]][c]

\* the request without the criterion k
SemCriterio(k) == Dict([c \in DOMAIN filtros.items \ {k} |-> filtros.items[c]])

FonteFalhou == csv.obj \in {"missing", "unreadable"}

\* the criterion k is a text that is not an integer
CriterioNaoInteiro(k) ==
  /\ Presente(k)
  /\ ValorDoCriterio(k).t = "str"
  /\ ValorDoCriterio(k) \notin {todos, Str(<<>>)}
  /\ int(ValorDoCriterio(k)) = Fail

\* C12: carregar_dados never raises to its caller: for any criteria (also values of
\* ano and mes that are not integers) and any state of the data source it returns
\* a record set; when the data source is missing or unreadable the set is empty,
\* carries every expected column, and the failure is printed.
C12_CargaNuncaPropaga ==
  Carregou =>
    /\ ret.kind = "return"
    /\ ret.val.obj = "DataFrame"
    /\ expected_cols \subseteq ret.val.columns
    /\ \A j \in 1..Len(ret.val.rows) : DOMAIN ret.val.rows[j] = ret.val.columns
    /\ FonteFalhou =>
         /\ ret.val.rows = <<>>
         /\ aviso_da_carga(csv, filtros) # SemAviso
    /\ (csv.obj = "csv" /\ "ano" \in csv.columns /\ CriterioNaoInteiro("ano")) =>
         /\ ret.val.rows = <<>>
         /\ aviso_da_carga(csv, filtros) # SemAviso

\* a load from a missing file, and a load of records with ano = "abc"
C12_Witness ==
  /\ Carregou
  /\ ret.kind = "return"
  /\ \/ csv = ArquivoAusente
     \/ /\ csv.obj = "csv" /\ "ano" \in csv.columns /\ Len(csv.rows) = MaxLinhas
        /\ CriterioNaoInteiro("ano")

\* the column the aggregator that ran groups by
ColunaDoGrupo ==
  IF pc = "obter_dados_bairros" THEN "bairro"
  ELSE IF pc = "obter_distribuicao_mes" THEN "mes"
  ELSE "ponto_de_coleta"

\* the keys of the emitted groups, in the order of the returned list
ChavesEmitidas == [k \in 1..Len(ret.val) |-> ret.val[k][ColunaDoGrupo]]

\* the position of the first record with the key v
PrimeiraOcorrencia(v) ==
  CHOOSE i \in Todas :
    /\ df.rows[i][ColunaDoGrupo] = v
    /\ \A j \in 1..(i - 1) : df.rows[j][ColunaDoGrupo] # v

OcorreNaEntrada(v) == \E i \in Todas : df.rows[i][ColunaDoGrupo] = v

\* the months of the records, a text that is a number counted as the number
MesesDaEntrada ==
  { m \in 1..Len(nomes_meses) : \E i \in Todas : IgualInteiro(to_numeric(df.rows[i]["mes"]), m) }

\* C13: obter_dados_bairros and obter_distribuicao_ponto_coleta emit their groups
\* in the order in which each distinct key first occurs in the input;
\* obter_distribuicao_mes emits the months in strictly increasing order within
\* 1..12 whatever the input order, and a month only if some record has it.
C13_OrdemDosGrupos ==
  (Agrupou /\ EFrame) =>
    /\ ret.kind = "return"
    /\ pc \in {"obter_dados_bairros", "obter_distribuicao_ponto_coleta"} =>
         /\ \A k \in 1..Len(ret.val) : OcorreNaEntrada(ChavesEmitidas[k])
         /\ \A k \in 1..Len(ret.val) : \A l \in (k + 1)..Len(ret.val) :
              PrimeiraOcorrencia(ChavesEmitidas[k]) < PrimeiraOcorrencia(ChavesEmitidas[l])
         /\ \A i \in Todas :
              df.rows[i][ColunaDoGrupo] # NaN
                => \E k \in 1..Len(ret.val) : ChavesEmitidas[k] = df.rows[i][ColunaDoGrupo]
    /\ pc = "obter_distribuicao_mes" =>
         /\ \A k \in 1..Len(ret.val) : ChavesEmitidas[k] \in MesesDaEntrada
         /\ \A k \in 1..Len(ret.val) : \A l \in (k + 1)..Len(ret.val) :
              ChavesEmitidas[k] < ChavesEmitidas[l]
         /\ \A m \in MesesDaEntrada : \E k \in 1..Len(ret.val) : ChavesEmitidas[k] = m

\* neighbourhoods emitted Pituba before Barra, as the input has them
C13_Witness ==
  /\ Agrupou /\ EFrame /\ Len(df.rows) = 3
  /\ df.rows[1]["bairro"] = Pituba /\ df.rows[2]["bairro"] = Barra
  /\ df.rows[3]["bairro"] = Pituba
  /\ df.rows[1]["mes"] = Num(1, 0) /\ df.rows[2]["mes"] = Num(2, 0)
  /\ pc = "obter_dados_bairros"
  /\ ChavesEmitidas = <<Pituba, Barra>>

\* months emitted in calendar order from an input that lists month 2 before month 1
C13_WitnessMes ==
  /\ pc = "obter_distribuicao_mes" /\ EFrame /\ Len(df.rows) = 2
  /\ df.rows[1]["mes"] = Num(2, 0) /\ df.rows[2]["mes"] = Num(1, 0)
  /\ ChavesEmitidas = <<1, 2>>

\* the key of the k-th group is null; a month key is a number of range(1, 13)
ChaveNula(k) == pc # "obter_distribuicao_mes" /\ ChavesEmitidas[k] = NaN

\* C15: every group emitted by obter_dados_bairros, obter_distribuicao_mes and
\* obter_distribuicao_ponto_coleta has a non-null key and a sample count of at
\* least 1, for every record set, those with a null neighbourhood or a null
\* collection point included.
C15_GruposNaoVazios ==
  (Agrupou /\ EFrame) =>
    \A k \in 1..Len(ret.val) :
      /\ ~ChaveNula(k)
      /\ Contagem(ret.val[k]) >= 1

\* the part of C15 the code keeps: the month and the collection-point aggregators
C15_MesEPontoNaoVazios ==
  (Agrupou /\ EFrame /\ pc # "obter_dados_bairros") =>
    \A k \in 1..Len(ret.val) :
      /\ ~ChaveNula(k)
      /\ Contagem(ret.val[k]) >= 1

(***************************************************************************)
(* The server: clients, each sending one request and then, after GET / or  *)
(* POST /api/filtrar_dados, fetching the map at map_path.                  *)
(***************************************************************************)
Clientes == {"c1", "c2"}

Pendente == [fase |-> "pending"]

Respondido(rota, criterios, resposta) ==
  [fase |-> "responded", rota |-> rota, filtros |-> criterios, resposta |-> resposta]

ComMapa(r, arquivo) ==
  [ fase |-> "map", rota |-> r.rota, filtros |-> r.filtros, resposta |-> r.resposta,
    mapa |-> arquivo ]

Geo(a, b, lat) ==
  [ ano |-> a, mes |-> Num(1, 0), bairro |-> b, parametro |-> Str(Turbidez),
    resultado |-> NaN, resultado_numerico |-> Num(15, 1), ponto_de_coleta |-> Ponto1,
    latitude |-> lat, longitude |-> Str(<<"-","3","8",".","5">>) ]

ColunasGeo == ColunasCsv \cup {"latitude", "longitude"}

FontesDoServidor ==
  { ArquivoAusente,
    Csv(ColunasGeo, <<>>),
    Csv(ColunasGeo, << Geo(Num(2023, 0), Pituba, Num(-129, 1)),
                       Geo(Num(2022, 0), Barra, Num(-130, 1)) >>),
    Csv(ColunasGeo, << Geo(Num(2023, 0), Pituba, NaN),
                       Geo(Num(2023, 0), Barra, Num(-130, 1)) >>),
    Csv(ColunasGeo, << Geo(Num(2023, 0), Num(7, 0), Num(-129, 1)),
                       Geo(Num(2022, 0), Barra, Num(-130, 1)) >>) }

\* the JSON bodies of POST /api/filtrar_dados
Corpos ==
  { NaN, Dict([ano |-> Num(2023, 0)]), Dict([ano |-> Str(<<"2","0","2","2">>)]),
    CorpoInvalido }

\* the query strings of the GET routes, as request.args.to_dict() gives them
Args == { Dict(<<>>), Dict([ano |-> Str(<<"2","0","2","3">>)]) }

InitReq ==
  /\ pc = "serving"
  /\ row = NoneRow
  /\ df = NoneFrame
  /\ csv \in FontesDoServidor
  /\ filtros = NaN
  /\ ret = NoRet
  /\ arquivos \in { Arquivos(SemMapa, t, g) : t \in BOOLEAN, g \in BOOLEAN }
  /\ reqs = [c \in Clientes |-> Pendente]

\* the call state of the single-call specifications, which the server leaves alone
chamada == <<pc, row, df, csv, filtros, ret>>

Responder(c, rota, criterios, resposta, mapa) ==
  /\ reqs[c] = Pendente
  /\ reqs' = [reqs EXCEPT ![c] = Respondido(rota, criterios, resposta)]
  /\ arquivos' = [arquivos EXCEPT !.mapa_coletas = mapa]
  /\ UNCHANGED chamada

IndexFeito(c, feito) == Responder(c, "index", NaN, feito.resposta, feito.mapa)

Index(c) == IndexFeito(c, index(csv, arquivos))

ApiBairros(c) ==
  \E args \in Args :
    Responder(c, "api_bairros", args, api_bairros(csv, args), arquivos.mapa_coletas)

ApiDistribuicaoMes(c) ==
  \E args \in Args :
    Responder(c, "api_distribuicao_mes", args, api_distribuicao_mes(csv, args),
              arquivos.mapa_coletas)

ApiDistribuicaoPontoColeta(c) ==
  \E args \in Args :
    Responder(c, "api_distribuicao_ponto_coleta", args,
              api_distribuicao_ponto_coleta(csv, args), arquivos.mapa_coletas)

FiltrarFeito(c, corpo, feito) ==
  Responder(c, "api_filtrar_dados", corpo, feito.resposta, feito.mapa)

ApiFiltrarDados(c) ==
  \E corpo \in Corpos : FiltrarFeito(c, corpo, api_filtrar_dados(csv, corpo, arquivos))

AtualizarDados(c) ==
  Responder(c, "atualizar_dados", NaN, atualizar_dados, arquivos.mapa_coletas)

\* the client follows map_path, or the map the page embeds
ServeStatic(c) ==
  /\ reqs[c].fase = "responded"
  /\ reqs[c].rota \in {"index", "api_filtrar_dados"}
  /\ reqs[c].resposta.kind # "unhandled"
  /\ reqs' = [reqs EXCEPT ![c] = ComMapa(reqs[c], serve_static(arquivos))]
  /\ UNCHANGED <<chamada, arquivos>>

NextReq ==
  \E c \in Clientes :
    \/ Index(c)
    \/ ApiBairros(c)
    \/ ApiDistribuicaoMes(c)
    \/ ApiDistribuicaoPontoColeta(c)
    \/ ApiFiltrarDados(c)
    \/ AtualizarDados(c)
    \/ ServeStatic(c)

SpecReq == InitReq /\ [][NextReq]_vars

(***************************************************************************)
(* Properties of the server (SpecReq).                                     *)
(***************************************************************************)
\* the response of c tells the client that a map was made
RespostaComMapa(c) ==
  \/ /\ reqs[c].rota = "api_filtrar_dados"
     /\ reqs[c].resposta.corpo.map_status = "success"
  \/ /\ reqs[c].rota = "index"
     /\ reqs[c].resposta.kind = "page"
     /\ "error_message" \notin DOMAIN reqs[c].resposta.contexto

\* the map of the records the criteria select from the data source
MapaDe(criterios) ==
  criar_mapa_coletas(carregar_dados(csv, criterios).val, arquivos.geojson).mapa

\* the statistics of the records the criteria select from the data source
EstatisticasDe(criterios) == calcular_estatisticas(carregar_dados(csv, criterios).val).val

\* what the request of c returned is a function of its own criteria
RespostaPropria(c) ==
  (reqs[c].fase # "pending" /\ reqs[c].rota = "api_filtrar_dados"
     /\ reqs[c].filtros # CorpoInvalido)
    => reqs[c].resposta.corpo.stats = EstatisticasDe(reqs[c].filtros)

\* the map the client of c found at map_path is the map of its own criteria
MapaProprio(c) ==
  (reqs[c].fase = "map" /\ RespostaComMapa(c))
    => /\ reqs[c].mapa.kind = "file"
       /\ reqs[c].mapa.corpo = MapaDe(reqs[c].filtros)

\* C11: no request writes state another request can observe: under any
\* interleaving of requests to GET / and POST /api/filtrar_dados, what a request
\* returns and the map it makes available at its map_path depend only on that
\* request's own criteria and the data source, never on another request's.
C11_SemEstadoEntreRequisicoes ==
  \A c \in Clientes : RespostaPropria(c) /\ MapaProprio(c)

\* the part of C11 the code keeps: the returned statistics are the request's own
C11_RespostaPropria == \A c \in Clientes : RespostaPropria(c)

\* C14: every endpoint ends every request with a response: when an internal error
\* occurs at any step of the handler, the outcome is an empty or zero-valued JSON
\* payload or a rendered page carrying an error message, never an unhandled
\* server error.
C14_SempreResponde ==
  \A c \in Clientes :
    reqs[c].fase # "pending" => reqs[c].resposta.kind \in {"json", "page"}

\* the part of C14 the code keeps: the five JSON endpoints always answer with JSON
C14_RotasJsonRespondem ==
  \A c \in Clientes :
    (reqs[c].fase # "pending" /\ reqs[c].rota # "index") => reqs[c].resposta.kind = "json"

=============================================================================
